---- MODULE Spec2Model ----
(***************************************************************************)
(* codespin-cli: the include expander (includeDirective), the OpenAI       *)
(* completion client (completion) and the generate command (generate).     *)
(*                                                                         *)
(* Strings are sequences of one-character strings.  Inside the expander    *)
(* every character also carries h, the directory against which a directive *)
(* written at that place has to be resolved (the directory of the file     *)
(* whose own text holds the character): a history annotation, never read   *)
(* by the modelled code.                                                   *)
(***************************************************************************)
EXTENDS Integers, Sequences, FiniteSets, TLC

VARIABLES
    \* ---- includeDirective ----
    input,        \* the top-level text handed to includeDirective (characters)
    originPath,   \* promptFilePath of the top-level call; NoPath when undefined
    hasGit,       \* whether a git root can be found from the working directory
    stack,        \* the chain of pending includeDirective calls, innermost last
    estatus,      \* "running" | "done" | "error" | "exhausted"
    eerror,       \* what was thrown: "none" | "read_failed" | "missing_git"
    pass,         \* 1: expanding input; 2: expanding the first pass's own output
    result1,      \* value returned by the first pass
    result2,      \* value returned by the second pass
    reads,        \* history: every path resolution made, with the directory used
    \* ---- completion / generate ----
    caller,       \* "direct": completion called with an options object; "generate"
    args,         \* GenerateArgs (the fields generate reads from line 176 on)
    settings,     \* model / maxTokens of the prompt's front matter and of codespin.json
    promptLen,    \* evaluatedPrompt.length (prompt.length in completion)
    options,      \* the second argument completion receives
    apiKey,       \* process.env.OPENAI_API_KEY is set
    gpc,          \* where generate is
    cpc,          \* where completion is
    requests,     \* number of fetch calls issued
    sent,         \* body of the request sent: model and max_tokens
    response,     \* outcome of the network call
    cresult,      \* the CompletionResult completion resolved to
    gerror,       \* the error generate rejected with
    applied,      \* number of extractFilesToDisk invocations
    console       \* number of writeToConsole calls made by completion

evars == <<input, originPath, hasGit, stack, estatus, eerror, pass, result1, result2, reads>>
gvars == <<caller, args, settings, promptLen, options, apiKey, gpc, cpc, requests, sent,
           response, cresult, gerror, applied, console>>
vars == <<evars, gvars>>

(***************************************************************************)
(* Bounds                                                                  *)
(***************************************************************************)
MaxDepth == 4   \* pending includeDirective calls before the run is cut off

(***************************************************************************)
(* Characters and strings                                                  *)
(***************************************************************************)
Prefix == <<"c","o","d","e","s","p","i","n",":","i","n","c","l","u","d","e",":">>

\* \s of the pattern (the members used here) and the double quote
IsSpace(c) == c \in {" ", "\n", "\t"}
IsPathChar(c) == ~IsSpace(c) /\ c # "\""

Tag(text, h) == [i \in 1..Len(text) |-> [c |-> text[i], h |-> h]]
Chars(s) == [i \in 1..Len(s) |-> s[i].c]

Min(S) == CHOOSE x \in S : \A y \in S : x <= y

(***************************************************************************)
(* includePattern = /codespin:include:([^"\s]+)/g and RegExp.exec          *)
(***************************************************************************)
\* the pattern matches at the 1-based position i of s
DirectiveAt(s, i) ==
    /\ i + Len(Prefix) <= Len(s)
    /\ \A k \in 1..Len(Prefix) : s[i + k - 1].c = Prefix[k]
    /\ IsPathChar(s[i + Len(Prefix)].c)

\* last position of the greedy run [^"\s]+ that starts at position j
PathEnd(s, j) == Min({k \in j..Len(s) : k = Len(s) \/ ~IsPathChar(s[k + 1].c)})

\* positions at or after the 0-based index lastIndex where the pattern matches
MatchStarts(s, lastIndex) == {i \in (lastIndex + 1)..Len(s) : DirectiveAt(s, i)}

\* includePattern.exec(s) with the pattern's lastIndex as it stands: the search
\* starts at lastIndex whatever string the previous call was made on.
Exec(s, lastIndex) ==
    IF MatchStarts(s, lastIndex) = {}
    THEN [found |-> FALSE, match |-> <<>>, path |-> <<>>, lastIndex |-> 0]
    ELSE LET i == Min(MatchStarts(s, lastIndex))
             e == PathEnd(s, i + Len(Prefix))
         IN  [found |-> TRUE,
              match |-> SubSeq(s, i, e),
              path |-> Chars(SubSeq(s, i + Len(Prefix), e)),
              lastIndex |-> e]

(***************************************************************************)
(* String.prototype.replace(searchString, replaceString)                   *)
(***************************************************************************)
OccursAt(s, pat, i) ==
    /\ i + Len(pat) - 1 <= Len(s)
    /\ \A k \in 1..Len(pat) : s[i + k - 1].c = pat[k].c

RECURSIVE GetSubstitution(_, _, _, _, _)
\* the replacement text from its position i on: $$, $&, $ before a backquote
\* and $ before an apostrophe are patterns (the characters backquote and
\* apostrophe are written "bq" and "sq"); a search string has no captures, so
\* $1.. and $< stay as written
GetSubstitution(repl, matched, before, after, i) ==
    IF i > Len(repl) THEN <<>>
    ELSE IF repl[i].c = "$" /\ i < Len(repl) /\ repl[i + 1].c \in {"$", "&", "bq", "sq"}
    THEN (CASE repl[i + 1].c = "$" -> <<repl[i]>>
            [] repl[i + 1].c = "&" -> matched
            [] repl[i + 1].c = "bq" -> before
            [] OTHER -> after)
         \o GetSubstitution(repl, matched, before, after, i + 2)
    ELSE <<repl[i]>> \o GetSubstitution(repl, matched, before, after, i + 1)

\* contents.replace(match[0], includedContent): the first occurrence of the
\* matched text, wherever it stands
JsReplace(s, pat, repl) ==
    LET hits == {i \in 1..Len(s) : OccursAt(s, pat, i)}
    IN  IF hits = {} THEN s
        ELSE LET i == Min(hits)
                 before == SubSeq(s, 1, i - 1)
                 after == SubSeq(s, i + Len(pat), Len(s))
             IN  before \o GetSubstitution(repl, SubSeq(s, i, i + Len(pat) - 1), before, after, 1)
                 \o after

(***************************************************************************)
(* Paths: a full path is the sequence of its segments below the root       *)
(***************************************************************************)
NoPath == <<>>      \* promptFilePath undefined (or empty: both are falsy)
Cwd == <<>>         \* process.cwd(): the project root
GitRoot == <<>>     \* the directory git reports as the work tree root

RECURSIVE SplitPath(_, _)
\* the segments of the path text p, cur being the segment read so far
SplitPath(p, cur) ==
    IF p = <<>> THEN <<cur>>
    ELSE IF Head(p) = "/" THEN <<cur>> \o SplitPath(Tail(p), <<>>)
    ELSE SplitPath(Tail(p), Append(cur, Head(p)))

RECURSIVE Normalize(_, _)
\* path.resolve: the directory base followed by the segments segs
Normalize(base, segs) ==
    IF segs = <<>> THEN base
    ELSE IF Head(segs) = <<>> \/ Head(segs) = <<".">> THEN Normalize(base, Tail(segs))
    ELSE IF Head(segs) = <<".", ".">>
    THEN Normalize(IF base = <<>> THEN base ELSE SubSeq(base, 1, Len(base) - 1), Tail(segs))
    ELSE Normalize(Append(base, Head(segs)), Tail(segs))

Dirname(full) == SubSeq(full, 1, Len(full) - 1)

IsRootRelative(p) == p # <<>> /\ Head(p) = "/"

\* resolveProjectFilePath(includedPath, dir, {missingGit}): a path starting
\* with "/" is taken from the git root, any other from dir
ResolveProjectFilePath(p, dir) ==
    IF IsRootRelative(p) THEN Normalize(GitRoot, SplitPath(p, <<>>))
    ELSE Normalize(dir, SplitPath(p, <<>>))

(***************************************************************************)
(* The files on disk and the texts expanded                                *)
(***************************************************************************)
Dir(p) == Prefix \o p
Pad == <<"x","x","x","x","x","x","x","x","x","x","x","x","x","x","x","x","x","x","x">>
LongText == <<"L","L","L","L","L","L","L","L","L","L","L","L","L","L","L","L","L","L","L","L">>

Files ==
    (<<<<"e">>>> :> <<>>)
    @@ (<<<<"b">>>> :> <<"B">>)
    @@ (<<<<"l">>>> :> LongText)
    @@ (<<<<"s">>>> :> <<"$", "$", "5">>)
    @@ (<<<<"c">>>> :> (<<"x", " ">> \o Dir(<<"c">>)))
    @@ (<<<<"p">>>> :> Dir(<<"q">>))
    @@ (<<<<"q">>>> :> (Dir(<<"p">>) \o <<"\n">>))
    @@ (<<<<"d">>, <<"b">>>> :> <<"D">>)
    @@ (<<<<"d">>, <<"e">>>> :> <<>>)
    @@ (<<<<"d">>, <<"n">>>> :> (Dir(<<"b">>) \o <<" ", "!">>))
    @@ (<<<<"d">>, <<"g">>>> :> (<<"g", "\"">> \o Dir(<<"/", "b">>) \o <<"\"">>))
    @@ (<<<<"d">>, <<"a">>>> :> (Pad \o Dir(<<"e">>) \o <<" ">> \o Dir(<<"b">>)))

FileExists(full) == full \in DOMAIN Files

Inputs ==
    { <<"h", "i">>,
      Dir(<<"b">>) \o <<" ">> \o Dir(<<"l">>),
      Dir(<<"l">>) \o <<" ">> \o Dir(<<"b">>),
      Dir(<<"e">>) \o <<"\"">> \o Dir(<<"b">>),
      <<"a", " ">> \o Dir(<<"d", "/", "n">>) \o <<"\n", "z">>,
      Dir(<<"d", "/", "a">>),
      Dir(<<"d", "/", "g">>),
      Dir(<<".", ".", "/", "b">>),
      Dir(<<"/", "b">>) \o <<" ", "r">>,
      Dir(<<"s">>),
      Dir(<<"c">>),
      Dir(<<"p">>),
      Dir(<<"z">>) }

Origins == {NoPath, <<<<"m">>>>, <<<<"d">>, <<"m">>>>}

(***************************************************************************)
(* includeDirective as a chain of pending calls                            *)
(***************************************************************************)
\* the call includeDirective(contents, promptFilePath, baseDir) at its entry:
\* a fresh pattern, so lastIndex 0
Call(contents, promptFilePath) ==
    [contents |-> contents, promptFilePath |-> promptFilePath, lastIndex |-> 0, match |-> <<>>]

\* promptFilePath ? path.dirname(promptFilePath) : process.cwd()
SearchDir(promptFilePath) ==
    IF promptFilePath # NoPath THEN Dirname(promptFilePath) ELSE Cwd

Top == stack[Len(stack)]
TopMatch == Exec(Top.contents, Top.lastIndex)
TopFullPath == ResolveProjectFilePath(TopMatch.path, SearchDir(Top.promptFilePath))

Running == estatus = "running"

\* the read the innermost call is about to make, as the history keeps it
ReadRecord ==
    [path |-> TopMatch.path, dir |-> SearchDir(Top.promptFilePath),
     home |-> TopMatch.match[1].h, full |-> TopFullPath]

\* resolveProjectFilePath throws missingGit: the whole expansion rejects
MissingGit ==
    /\ Running /\ TopMatch.found
    /\ IsRootRelative(TopMatch.path) /\ ~hasGit
    /\ estatus' = "error" /\ eerror' = "missing_git"
    /\ UNCHANGED <<input, originPath, hasGit, stack, pass, result1, result2, reads>>

Resolvable == TopMatch.found /\ (IsRootRelative(TopMatch.path) => hasGit)

\* fs.readFile fails: "Failed to include file from path", thrown through
\* every pending call
ReadFail ==
    /\ Running /\ Resolvable
    /\ ~FileExists(TopFullPath)
    /\ estatus' = "error" /\ eerror' = "read_failed"
    /\ reads' = reads \cup {ReadRecord}
    /\ UNCHANGED <<input, originPath, hasGit, stack, pass, result1, result2>>

\* a match whose file is read: the recursive call on the file's text, with
\* the file's own path as promptFilePath
Include ==
    /\ Running /\ Resolvable
    /\ FileExists(TopFullPath)
    /\ Len(stack) < MaxDepth
    /\ stack' = Append(
           [stack EXCEPT ![Len(stack)] =
               [@ EXCEPT !.lastIndex = TopMatch.lastIndex, !.match = TopMatch.match]],
           Call(Tag(Files[TopFullPath], Dirname(TopFullPath)), TopFullPath))
    /\ reads' = reads \cup {ReadRecord}
    /\ UNCHANGED <<input, originPath, hasGit, estatus, eerror, pass, result1, result2>>

\* the chain of pending calls has grown to MaxDepth and would grow further:
\* the run is cut off as out of resources
Exhaust ==
    /\ Running /\ Resolvable
    /\ FileExists(TopFullPath)
    /\ Len(stack) = MaxDepth
    /\ estatus' = "exhausted"
    /\ reads' = reads \cup {ReadRecord}
    /\ UNCHANGED <<input, originPath, hasGit, stack, eerror, pass, result1, result2>>

\* exec returns null in a nested call: it returns its contents, and the
\* caller replaces the text it had matched, then loops
Return ==
    /\ Running /\ ~TopMatch.found
    /\ Len(stack) > 1
    /\ LET caller_ == stack[Len(stack) - 1]
       IN  stack' = Append(
               SubSeq(stack, 1, Len(stack) - 2),
               [caller_ EXCEPT !.contents = JsReplace(caller_.contents, caller_.match, Top.contents)])
    /\ UNCHANGED <<input, originPath, hasGit, estatus, eerror, pass, result1, result2, reads>>

\* exec returns null in the outermost call: includeDirective resolves
Finish ==
    /\ Running /\ ~TopMatch.found
    /\ Len(stack) = 1
    /\ estatus' = "done"
    /\ IF pass = 1
       THEN result1' = Chars(Top.contents) /\ result2' = result2
       ELSE result2' = Chars(Top.contents) /\ result1' = result1
    /\ UNCHANGED <<input, originPath, hasGit, stack, eerror, pass, reads>>

\* the caller runs includeDirective again on what the first run returned,
\* with the same promptFilePath
Rerun ==
    /\ estatus = "done" /\ pass = 1
    /\ pass' = 2
    /\ estatus' = "running"
    /\ stack' = <<Call(Tag(result1, SearchDir(originPath)), originPath)>>
    /\ reads' = {}
    /\ UNCHANGED <<input, originPath, hasGit, eerror, result1, result2>>

(***************************************************************************)
(* JavaScript values of the completion client and of generate              *)
(***************************************************************************)
Undefined == "undefined"
Unset == [set |-> FALSE, v |-> 0]          \* a number that is undefined
Num(n) == [set |-> TRUE, v |-> n]

\* truthiness, as || and if see it
TruthyStr(x) == x # Undefined /\ x # ""
TruthyNum(x) == x.set /\ x.v # 0

\* a || b on strings
OrStr(a, b) == IF TruthyStr(a) THEN a ELSE b

DefaultModel == "gpt-3.5-turbo"
DefaultBudget == 4000

NoResult == [kind |-> "none", code |-> "", message |-> ""]
Ok(message) == [kind |-> "ok", code |-> "", message |-> message]
Err(code, message) == [kind |-> "err", code |-> code, message |-> message]

NoRequest == [made |-> FALSE, model |-> "", max_tokens |-> 0]
NoResponse == [kind |-> "none", error |-> "", hasChoices |-> FALSE, choices |-> <<>>]

(***************************************************************************)
(* Inputs: what completion and generate are called with, and what the      *)
(* network call can come back with                                         *)
(***************************************************************************)
Models == {Undefined, "gpt-4"}
MaxTokensValues == {Unset, Num(0), Num(256)}
PromptLens == {0, 500, 4001}
FinishReasons == {"stop", "length", "content_filter"}

\* message: "absent" when the choice has no message object, else its content
Choices ==
    {[finish_reason |-> f, message |-> m] : f \in FinishReasons, m \in {"absent", "", "text"}}

\* the body of a response that parsed as JSON: error is "" when the payload
\* has no error member, else the provider's code; hasChoices tells whether
\* the payload has a choices member
JsonBodies ==
    {[kind |-> "json", error |-> e, hasChoices |-> TRUE, choices |-> c] :
        e \in {"", "rate_limit_exceeded"},
        c \in {<<>>} \cup {<<ch>> : ch \in Choices}}
    \cup {[kind |-> "json", error |-> e, hasChoices |-> FALSE, choices |-> <<>>] :
        e \in {"", "rate_limit_exceeded"}}

Failure(kind) == [kind |-> kind, error |-> "", hasChoices |-> FALSE, choices |-> <<>>]

\* fetch rejects; response.json() rejects; the body is the JSON null
Responses == {Failure("rejected"), Failure("not_json"), Failure("json_null")} \cup JsonBodies

\* the options objects a caller of completion passes
OptionsObjects ==
    {[kind |-> "object", model |-> m, maxTokens |-> t, debug |-> d] :
        m \in Models, t \in MaxTokensValues, d \in BOOLEAN}

\* a value that is not an options object, as completion receives it
Primitive(x) ==
    [kind |-> IF x = Undefined THEN "undefined" ELSE "string",
     model |-> Undefined, maxTokens |-> Unset, debug |-> FALSE]

ArgsValues ==
    [api : {"openai", "other"}, model : Models, maxTokens : {Unset, Num(256)},
     write : BOOLEAN, printPrompt : BOOLEAN, writePrompt : {Undefined, "", "prompt.txt"},
     debug : BOOLEAN]

SettingsValues == [promptModel : Models, configModel : {Undefined, "gpt-4-32k"}]

(***************************************************************************)
(* completion(prompt, options)                                             *)
(***************************************************************************)
\* options.model, options.maxTokens, options.debug: a property of a string
\* primitive that is not its own is undefined
OptModel(o) == IF o.kind = "object" THEN o.model ELSE Undefined
OptMaxTokens(o) == IF o.kind = "object" THEN o.maxTokens ELSE Unset
OptDebug(o) == o.kind = "object" /\ o.debug

\* const model = options.model || "gpt-3.5-turbo"
EffectiveModel(o) == OrStr(OptModel(o), DefaultModel)

\* a default budget that forgets the prompt
MaxTokensIgnoringPrompt(o, len) ==
    IF TruthyNum(OptMaxTokens(o)) THEN OptMaxTokens(o).v ELSE DefaultBudget

\* const maxTokens = options.maxTokens || 4000 - prompt.length
EffectiveMaxTokens(o, len) ==
    IF TruthyNum(OptMaxTokens(o)) THEN OptMaxTokens(o).v ELSE DefaultBudget - len

\* a completion that returns the text whatever the finish reason
ClassifyIgnoringFinish(r) ==
    IF r.kind # "json" THEN Err("fetch_error", "cause")
    ELSE IF r.error # "" THEN Err(r.error, "provider message")
    ELSE IF ~r.hasChoices THEN Err("fetch_error", "cause")
    ELSE IF r.choices = <<>> THEN Err("fetch_error", "cause")
    ELSE IF r.choices[1].message = "absent" THEN Err("fetch_error", "cause")
    ELSE Ok(r.choices[1].message)

\* the part of completion after the fetch: the value it resolves to for the
\* outcome r of the network call.  Every throw inside the try block (a
\* rejected fetch, a body that is not JSON, a property read on null or
\* undefined) ends in the catch clause.
Classify(r) ==
    IF r.kind # "json" THEN Err("fetch_error", "cause")
    ELSE IF r.error # "" THEN Err(r.error, "provider message")
    ELSE IF ~r.hasChoices THEN Err("fetch_error", "cause")
    ELSE IF r.choices = <<>> THEN Err("fetch_error", "cause")
    ELSE IF r.choices[1].finish_reason # "stop"
    THEN Err(r.choices[1].finish_reason, r.choices[1].finish_reason)
    ELSE IF r.choices[1].message = "absent" THEN Err("fetch_error", "cause")
    ELSE Ok(r.choices[1].message)

\* lines 23-35: the defaults are read off options; reading a property of
\* undefined throws before the try block is entered
CompEnter ==
    /\ cpc = "called"
    /\ IF options.kind = "undefined"
       THEN cpc' = "threw" /\ console' = console
       ELSE cpc' = "entered" /\ console' = console + (IF OptDebug(options) THEN 2 ELSE 0)
    /\ UNCHANGED <<caller, args, settings, promptLen, options, apiKey, gpc, requests, sent,
                   response, cresult, gerror, applied>>

\* lines 38-46
CompMissingKey ==
    /\ cpc = "entered"
    /\ ~apiKey
    /\ cresult' = Err("missing_api_key", "OPENAI_API_KEY is not set in the environment variables.")
    /\ cpc' = "resolved"
    /\ UNCHANGED <<caller, args, settings, promptLen, options, apiKey, gpc, requests, sent,
                   response, gerror, applied, console>>

\* a completion that fetches before it looks at the key
CompFetchBeforeKeyCheck ==
    /\ cpc = "entered"
    /\ requests' = requests + 1
    /\ sent' = [made |-> TRUE, model |-> EffectiveModel(options),
                max_tokens |-> EffectiveMaxTokens(options, promptLen)]
    /\ response' \in Responses
    /\ cpc' = "fetched"
    /\ UNCHANGED <<caller, args, settings, promptLen, options, apiKey, gpc, cresult, gerror,
                   applied, console>>

\* lines 51-70: the one fetch, and the outcome the network gives it
CompFetch ==
    /\ cpc = "entered"
    /\ apiKey
    /\ requests' = requests + 1
    /\ sent' = [made |-> TRUE, model |-> EffectiveModel(options),
                max_tokens |-> EffectiveMaxTokens(options, promptLen)]
    /\ response' \in Responses
    /\ cpc' = "fetched"
    /\ UNCHANGED <<caller, args, settings, promptLen, options, apiKey, gpc, cresult, gerror,
                   applied, console>>

\* lines 73-115
CompRespond ==
    /\ cpc = "fetched"
    /\ cresult' = Classify(response)
    /\ console' = console + (IF OptDebug(options) /\ response.kind \in {"json", "json_null"}
                             THEN 2 ELSE 0)
    /\ cpc' = "resolved"
    /\ UNCHANGED <<caller, args, settings, promptLen, options, apiKey, gpc, requests, sent,
                   response, gerror, applied>>

GenIdle ==
    /\ caller = "none"
    /\ args = [api |-> "openai", model |-> Undefined, maxTokens |-> Unset, write |-> FALSE,
               printPrompt |-> FALSE, writePrompt |-> Undefined, debug |-> FALSE]
    /\ settings = [promptModel |-> Undefined, configModel |-> Undefined]
    /\ promptLen = 0
    /\ options = Primitive(Undefined)
    /\ apiKey = FALSE
    /\ gpc = "idle" /\ cpc = "idle"
    /\ requests = 0
    /\ sent = NoRequest
    /\ response = NoResponse
    /\ cresult = NoResult
    /\ gerror = "none"
    /\ applied = 0
    /\ console = 0

(***************************************************************************)
(* generate(args)                                                          *)
(***************************************************************************)
\* lines 181: args.printPrompt || typeof args.writePrompt !== "undefined"
PromptOnly == args.printPrompt \/ args.writePrompt # Undefined

\* line 201: args.model || promptSettings?.model || config?.model
ChosenModel == OrStr(args.model, OrStr(settings.promptModel, settings.configModel))

\* a generate that applies the files whenever the result is Ok
RouteApplyAlways(r, write) ==
    IF r.kind = "ok" THEN "apply"
    ELSE IF r.code = "length" THEN "out_of_tokens"
    ELSE "generic"

\* a generate that reports every Err the generic way
RouteGenericOnly(r, write) ==
    IF r.kind = "ok" THEN (IF write THEN "apply" ELSE "print") ELSE "generic"

\* lines 219-258: what generate does with the CompletionResult r
Route(r, write) ==
    IF r.kind = "ok" THEN (IF write THEN "apply" ELSE "print")
    ELSE IF r.code = "length" THEN "out_of_tokens"
    ELSE "generic"

\* lines 39-179: the prompt is read and the template evaluated; the prompt
\* or the template may be missing
GenBuild ==
    /\ gpc = "start"
    /\ \E outcome \in {"ok", "no_prompt", "no_template"} :
          IF outcome = "ok"
          THEN gpc' = "built" /\ gerror' = gerror
          ELSE gpc' = "thrown" /\ gerror' = outcome
    /\ UNCHANGED <<caller, args, settings, promptLen, options, apiKey, cpc, requests, sent,
                   response, cresult, applied, console>>

\* lines 181-199: the prompt is printed or written, and generate returns
GenPromptOnly ==
    /\ gpc = "built"
    /\ PromptOnly
    /\ IF args.writePrompt # Undefined /\ ~TruthyStr(args.writePrompt)
       THEN gpc' = "thrown" /\ gerror' = "write_prompt_path"
       ELSE gpc' = "returned" /\ gerror' = gerror
    /\ UNCHANGED <<caller, args, settings, promptLen, options, apiKey, cpc, requests, sent,
                   response, cresult, applied, console>>

\* lines 206-210
GenInvalidApi ==
    /\ gpc = "built"
    /\ ~PromptOnly
    /\ args.api # "openai"
    /\ gpc' = "thrown" /\ gerror' = "invalid_api"
    /\ UNCHANGED <<caller, args, settings, promptLen, options, apiKey, cpc, requests, sent,
                   response, cresult, applied, console>>

\* lines 212-217: openaiCompletion(evaluatedPrompt, model, maxTokens, args.debug):
\* completion takes (prompt, options), so the model is what it receives as
\* options, and maxTokens and debug are arguments it does not read
GenCall ==
    /\ gpc = "built"
    /\ ~PromptOnly
    /\ args.api = "openai"
    /\ options' = Primitive(ChosenModel)
    /\ cpc' = "called"
    /\ gpc' = "awaiting"
    /\ UNCHANGED <<caller, args, settings, promptLen, apiKey, requests, sent, response,
                   cresult, gerror, applied, console>>

\* the awaited call rejected: generate rejects with the same error
GenRethrow ==
    /\ gpc = "awaiting"
    /\ cpc = "threw"
    /\ gpc' = "thrown" /\ gerror' = "type_error"
    /\ UNCHANGED <<caller, args, settings, promptLen, options, apiKey, cpc, requests, sent,
                   response, cresult, applied, console>>

\* lines 219-258.  With write unset the loop is over completionResult.files,
\* which the value completion resolves to does not have.
GenRoute ==
    /\ gpc = "awaiting"
    /\ cpc = "resolved"
    /\ LET way == Route(cresult, args.write)
       IN  /\ applied' = applied + (IF way = "apply" THEN 1 ELSE 0)
           /\ gpc' = IF way = "apply" THEN "returned" ELSE "thrown"
           /\ gerror' = CASE way = "apply" -> gerror
                          [] way = "print" -> "type_error"
                          [] way = "out_of_tokens" -> "out_of_tokens"
                          [] OTHER -> "generic"
    /\ UNCHANGED <<caller, args, settings, promptLen, options, apiKey, cpc, requests, sent,
                   response, cresult, console>>

ExpandIdle ==
    /\ input = <<>> /\ originPath = NoPath /\ hasGit = FALSE
    /\ stack = <<>>
    /\ estatus = "idle" /\ eerror = "none"
    /\ pass = 1
    /\ result1 = <<>> /\ result2 = <<>>
    /\ reads = {}

InitGen ==
    /\ ExpandIdle
    /\ caller \in {"direct", "generate"}
    /\ promptLen \in PromptLens
    /\ apiKey \in BOOLEAN
    /\ IF caller = "direct"
       THEN /\ options \in OptionsObjects
            /\ args = [api |-> "openai", model |-> Undefined, maxTokens |-> Unset,
                       write |-> FALSE, printPrompt |-> FALSE, writePrompt |-> Undefined,
                       debug |-> FALSE]
            /\ settings = [promptModel |-> Undefined, configModel |-> Undefined]
            /\ gpc = "idle" /\ cpc = "called"
       ELSE /\ options = Primitive(Undefined)
            /\ args \in ArgsValues
            /\ settings \in SettingsValues
            /\ gpc = "start" /\ cpc = "idle"
    /\ requests = 0
    /\ sent = NoRequest
    /\ response = NoResponse
    /\ cresult = NoResult
    /\ gerror = "none"
    /\ applied = 0
    /\ console = 0

NextGen ==
    \/ (CompEnter /\ UNCHANGED evars)
    \/ (CompMissingKey /\ UNCHANGED evars)
    \/ (CompFetch /\ UNCHANGED evars)
    \/ (CompRespond /\ UNCHANGED evars)
    \/ (GenBuild /\ UNCHANGED evars)
    \/ (GenPromptOnly /\ UNCHANGED evars)
    \/ (GenInvalidApi /\ UNCHANGED evars)
    \/ (GenCall /\ UNCHANGED evars)
    \/ (GenRethrow /\ UNCHANGED evars)
    \/ (GenRoute /\ UNCHANGED evars)

SpecGen == InitGen /\ [][NextGen]_vars

InitExpand ==
    /\ input \in Inputs
    /\ originPath \in Origins
    /\ hasGit \in BOOLEAN
    /\ stack = <<Call(Tag(input, SearchDir(originPath)), originPath)>>
    /\ estatus = "running" /\ eerror = "none"
    /\ pass = 1
    /\ result1 = <<>> /\ result2 = <<>>
    /\ reads = {}
    /\ GenIdle

NextExpand ==
    \/ (MissingGit /\ UNCHANGED gvars)
    \/ (ReadFail /\ UNCHANGED gvars)
    \/ (Include /\ UNCHANGED gvars)
    \/ (Exhaust /\ UNCHANGED gvars)
    \/ (Return /\ UNCHANGED gvars)
    \/ (Finish /\ UNCHANGED gvars)
    \/ (Rerun /\ UNCHANGED gvars)

SpecExpand == InitExpand /\ [][NextExpand]_vars

(***************************************************************************)
(* What the claims about the expander compare the code with                *)
(***************************************************************************)
\* more nested includes than there are files means a file includes itself
Fuel == Cardinality(DOMAIN Files)

RECURSIVE Expanded(_, _, _)
\* the text s, written in a file of directory dir, with every directive
\* occurrence replaced at its own place by the expanded content of the file
\* it names; ok is FALSE when a file cannot be read, the git root is missing,
\* or the includes run into a cycle
Expanded(s, dir, fuel) ==
    IF MatchStarts(s, 0) = {} THEN [ok |-> TRUE, text |-> s]
    ELSE LET i == Min(MatchStarts(s, 0))
             e == PathEnd(s, i + Len(Prefix))
             path == Chars(SubSeq(s, i + Len(Prefix), e))
             full == ResolveProjectFilePath(path, dir)
         IN  IF fuel = 0 \/ ~FileExists(full) \/ (IsRootRelative(path) /\ ~hasGit)
             THEN [ok |-> FALSE, text |-> <<>>]
             ELSE LET inner == Expanded(Tag(Files[full], Dirname(full)), Dirname(full), fuel - 1)
                      rest == Expanded(SubSeq(s, e + 1, Len(s)), dir, fuel)
                  IN  [ok |-> inner.ok /\ rest.ok,
                       text |-> SubSeq(s, 1, i - 1) \o inner.text \o rest.text]

ExpandedInput == Expanded(Tag(input, SearchDir(originPath)), SearchDir(originPath), Fuel)

\* some file is being expanded inside its own expansion
CycleEntered ==
    \E i, j \in 1..Len(stack) :
        i < j /\ stack[i].promptFilePath # NoPath
              /\ stack[i].promptFilePath = stack[j].promptFilePath

\* C1: for an acyclic set of readable files the first run ends by returning
\* the input with every directive occurrence replaced at its own place by the
\* fully expanded content of its file, all other text unchanged.
C1_EveryDirectiveExpandedInPlace ==
    (pass = 1 /\ ~Running /\ ExpandedInput.ok)
        => (estatus = "done" /\ result1 = Chars(ExpandedInput.text))

\* C4: a file is never expanded inside its own expansion without the run
\* having failed with CyclicIncludeError.
C4_CycleFailsWithCyclicIncludeError ==
    CycleEntered => (estatus = "error" /\ eerror = "CyclicIncludeError")

\* C5: for acyclic readable includes, running the expander on its own output
\* returns that output unchanged.
C5_ExpandIdempotent ==
    (pass = 2 /\ ~Running /\ ExpandedInput.ok)
        => (estatus = "done" /\ result2 = result1)

\* C9: every file read is the one obtained by resolving the directive against
\* the directory of the file whose own text contains the directive.
C9_ResolvedAgainstContainingFile ==
    \A r \in reads : r.full = ResolveProjectFilePath(r.path, r.home)

(***************************************************************************)
(* Claims about completion and generate                                    *)
(***************************************************************************)
Resolved == cpc = "resolved"
HasFirstChoice == response.kind = "json" /\ response.hasChoices /\ response.choices # <<>>
FirstFinish == response.choices[1].finish_reason
GenerateEnded == gpc \in {"returned", "thrown"}

\* C2: whatever it is called with, completion never rejects: it resolves to
\* a CompletionResult.
C2_CompletionNeverThrows == cpc # "threw"

\* C3 as claimed: a response whose first choice finished with "length" always
\* gives Err with code "length", whatever else it contains, and only "stop"
\* gives Ok.
C3_LengthAlwaysErrLength ==
    (Resolved /\ HasFirstChoice)
        => /\ (FirstFinish = "length" => (cresult.kind = "err" /\ cresult.code = "length"))
           /\ (cresult.kind = "ok" => FirstFinish = "stop")

\* C3 amended: a response whose first choice finished with "length" never
\* gives Ok; it gives Err with code "length" unless the response also carries
\* an error payload, whose code the Err then has.  Only "stop" gives Ok, and
\* the Ok message is the first choice's content.
C3_LengthNeverOk ==
    /\ (Resolved /\ HasFirstChoice /\ FirstFinish = "length")
          => /\ cresult.kind = "err"
             /\ cresult.code = (IF response.error = "" THEN "length" ELSE response.error)
    /\ (Resolved /\ cresult.kind = "ok")
          => /\ HasFirstChoice /\ FirstFinish = "stop"
             /\ cresult.message = response.choices[1].message

\* C3 witness: a response that finished with "length", has content and no error
\* payload, resolved to Err length.
C3_Witness ==
    /\ Resolved /\ HasFirstChoice /\ FirstFinish = "length"
    /\ response.error = "" /\ response.choices[1].message = "text"
    /\ cresult = Err("length", "length")

\* C6: one invocation issues at most one request, and none at all when no
\* key is configured, in which case it resolves to Err missing_api_key.
C6_AtMostOneRequest ==
    /\ requests <= 1
    /\ (~apiKey => requests = 0)
    /\ ((Resolved /\ ~apiKey) => (cresult.kind = "err" /\ cresult.code = "missing_api_key"))

\* C6 witness: completion has resolved without a key, with no request issued.
C6_Witness ==
    Resolved /\ ~apiKey /\ requests = 0 /\ cresult.code = "missing_api_key"

\* C7 as claimed: an Err that comes from any finish reason other than "stop"
\* makes generate fail with the error naming --max-tokens.
C7_AnyNonStopNamesRemedy ==
    (GenerateEnded /\ Resolved /\ cresult.kind = "err"
        /\ HasFirstChoice /\ response.error = "" /\ FirstFinish # "stop")
        => gerror = "out_of_tokens"

\* C7 amended: an Err whose code is "length" makes generate fail with the
\* error naming --max-tokens; an Err with any other code, other finish
\* reasons included, makes it fail with the generic "<code>: <message>".
C7_LengthNamesRemedy ==
    (GenerateEnded /\ Resolved /\ cresult.kind = "err")
        => gerror = (IF cresult.code = "length" THEN "out_of_tokens" ELSE "generic")

\* C7 witness: generate has failed with the --max-tokens error after a
\* "length" finish.
C7_Witness ==
    /\ GenerateEnded /\ Resolved /\ HasFirstChoice /\ response.error = ""
    /\ FirstFinish = "length" /\ gerror = "out_of_tokens"

\* C8 as claimed: max_tokens is 4000 - length(prompt) when maxTokens is unset
\* and the given maxTokens when it is set.
C8_BudgetSetOrDefault ==
    sent.made =>
        /\ (~OptMaxTokens(options).set => sent.max_tokens + promptLen = 4000)
        /\ (OptMaxTokens(options).set => sent.max_tokens = OptMaxTokens(options).v)

\* C8 amended: max_tokens is 4000 - length(prompt) when maxTokens is unset or
\* zero (3500 for a prompt of length 500), and the given maxTokens when it is
\* set to a number other than zero.
C8_BudgetNonZeroOrDefault ==
    sent.made =>
        /\ ((~OptMaxTokens(options).set \/ OptMaxTokens(options).v = 0)
               => sent.max_tokens + promptLen = 4000)
        /\ ((OptMaxTokens(options).set /\ OptMaxTokens(options).v # 0)
               => sent.max_tokens = OptMaxTokens(options).v)
        /\ ((~OptMaxTokens(options).set /\ promptLen = 500) => sent.max_tokens = 3500)

\* C8 witness: a request was sent for a prompt of length 500 with maxTokens
\* unset.
C8_Witness ==
    /\ sent.made /\ options.kind = "object" /\ ~options.maxTokens.set
    /\ promptLen = 500 /\ sent.max_tokens = 3500

\* C10: the applier runs at most once, and only in a generate whose
\* completion has resolved to Ok, with write selected, outside the prompt-only
\* modes and with api "openai".
C10_AppliedOnlyAfterOkAndWrite ==
    /\ applied <= 1
    /\ applied > 0
          => /\ caller = "generate" /\ Resolved /\ cresult.kind = "ok"
             /\ args.write /\ ~PromptOnly /\ args.api = "openai"

\* C10 witness: generate has returned after applying the files of an Ok result.
C10_Witness == applied = 1 /\ gpc = "returned" /\ cresult.kind = "ok" /\ args.write

====
